---- MODULE Spec2Model ----
(***************************************************************************)
(* Model of smoldot's JSON-RPC reverse proxy state machine                 *)
(* (lib/src/json_rpc/reverse_proxy.rs).                                    *)
(*                                                                         *)
(* JSON texts are modelled by what the parsers of the `parse` and          *)
(* `methods` modules extract from them: a client request is its id, its    *)
(* method and its parameters (or the kind of parse failure), a server      *)
(* message is a response (with its id), a notification (with its           *)
(* subscription) or garbage.  A panic (`todo!()`, `unreachable!()`, a      *)
(* failed assertion, an out-of-range index, an empty `gen_range`) ends the *)
(* run: `panicked` becomes TRUE and no operation is called any more.       *)
(* `debug_assert!` is modelled as enabled.  What a call returns is part of *)
(* the outcome of the method (`Return`), not of the state.                 *)
(***************************************************************************)
EXTENDS Integers, Sequences, FiniteSets, TLC

\* Number of slots of the `clients` slab that are explored.
MaxClients == 2
\* Number of slots of the `servers` slab that are explored.
MaxServers == 2
\* Largest quota value passed in a ClientConfig.
MaxQuota == 2

ClientIds == 0 .. (MaxClients - 1)
ServerIds == 0 .. (MaxServers - 1)
Quotas == 0 .. MaxQuota

\* `Option::None` of an `Option<ServerId>`.
None == -1

\* Error code of a JSON-RPC "internal error" response.
InternalError == -32603

------------------------------------------------------------------------------
\* Inputs

\* Ids (JSON text) used by clients in their requests.
RequestIds == {"7", "\"a\""}

LocalMethods ==
    {"system_name", "system_version", "sudo_unstable_version",
     "sudo_unstable_p2pDiscover"}

LegacySubscribeMethods ==
    {"state_subscribeRuntimeVersion", "state_subscribeStorage",
     "chain_subscribeAllHeads", "chain_subscribeFinalizedHeads",
     "chain_subscribeNewHeads"}

ChainHeadFollowMethods == {"chainHead_unstable_follow"}

TransactionsMethods ==
    {"author_submitAndWatchExtrinsic", "transaction_unstable_submitAndWatch"}

\* The methods that clients call in the model: the four that are answered
\* locally, one of each subscription kind, and one that has no arm of its own.
Methods ==
    LocalMethods \cup
    {"chain_subscribeNewHeads", "chainHead_unstable_follow",
     "transaction_unstable_submitAndWatch", "chain_getBlock"}

\* A well-formed request, and the three ways in which a request fails to parse.
ClientRequests ==
    [kind : {"call"}, id : RequestIds, method : Methods, params : {"[]"}]
    \cup
    [kind : {"JsonRpcParse", "Method", "UnknownNotification"},
     id : {"null"}, method : {""}, params : {""}]

\* Request ids and subscription ids found in what servers send.
ServerRequestIds == {"aa", "bb"}
\* The same ids in the order of `String`.
ServerRequestIdsInOrder == <<"aa", "bb">>
ServerSubscriptionIds == {"s1"}

\* What a server sends: a success response, an error response (internal error
\* or application-defined), a parse-error response, a notification, or a text
\* that is none of these.
ServerMessages ==
    [kind : {"success"}, id : ServerRequestIds, code : {0},
     subscription : {""}, payload : {"\"0x00\""}]
    \cup
    [kind : {"error"}, id : ServerRequestIds,
     code : {InternalError, -32000}, subscription : {""}, payload : {"null"}]
    \cup
    [kind : {"parse_error", "garbage"}, id : {""}, code : {0},
     subscription : {""}, payload : {""}]
    \cup
    [kind : {"notification"}, id : {""}, code : {0},
     subscription : ServerSubscriptionIds, payload : {"\"0x00\""}]

\* The configurations passed to insert_client: any limit to the number of
\* unanswered requests, with any limit given to the three kinds of
\* subscriptions alike.
ClientConfigs ==
    {[max_unanswered_parallel_requests |-> requests,
      max_legacy_api_subscriptions |-> subscriptions,
      max_chainhead_follow_subscriptions |-> subscriptions,
      max_transactions_subscriptions |-> subscriptions] :
         requests \in Quotas, subscriptions \in Quotas}

------------------------------------------------------------------------------
\* State

VARIABLES
    clients,          \* slab: ClientId -> Client or a vacant slot
    clients_free,     \* slab: the vacant keys, next key to be reused first
    clients_with_server_agnostic_request_waiting,
    client_server_specific_requests_queued,
    clients_with_server_specific_request_queued,
    servers,          \* slab: ServerId -> Server or a vacant slot
    servers_free,
    requests_in_progress,
    active_subscriptions,
    active_subscriptions_by_client,
    panicked          \* TRUE once an operation has panicked

proxy_vars ==
    <<clients, clients_free, clients_with_server_agnostic_request_waiting,
      client_server_specific_requests_queued,
      clients_with_server_specific_request_queued, servers, servers_free,
      requests_in_progress, active_subscriptions,
      active_subscriptions_by_client>>

\* The inputs and the result of one choice of a client by
\* next_proxied_json_rpc_request, taken on its own.
VARIABLES
    pick_agnostic,     \* clients_with_server_agnostic_request_waiting, as iterated
    pick_specific,     \* the clients with a queue for the server that is polled
    pick_num_clients,  \* self.clients.len()
    pick_num_servers,  \* self.servers.len()
    pick_index,        \* the value drawn by gen_range, None before the draw
    pick_chosen        \* (client_with_request, pick_from_server_specific)

selection_vars ==
    <<pick_agnostic, pick_specific, pick_num_clients, pick_num_servers,
      pick_index, pick_chosen>>

\* The Wasm virtual machine of executor/vm/jit.rs.
VARIABLES
    inner,          \* JitInner, or "Prepare" while the machine is a Prepare
    shared,         \* the Shared behind `Arc<Mutex<..>>`
    function_call,  \* the future of JitInner::Executing: where the call is
    memory,         \* the wasmtime::Memory and its MemoryType
    jit_panicked    \* TRUE once a method of the machine has panicked

jit_vars == <<inner, shared, function_call, memory, jit_panicked>>

\* The C bindings of light-c-bindings/rust/src/lib.rs, called from several
\* threads.
VARIABLES
    global_state,        \* owner of the mutex behind global_state(), or None
    chain_json_rpc,      \* GlobalState::chain_json_rpc: chain -> its stream
    json_rpc_responses,  \* owner of each `Mutex<JsonRpcResponses>`, or None
    streams,             \* the JsonRpcResponses, as the client keeps them
    threads,             \* where each thread stands and what it holds
    bindings_panicked    \* TRUE once a call has panicked

bindings_vars == <<global_state, chain_json_rpc, json_rpc_responses, streams,
                   threads, bindings_panicked>>

vars == <<proxy_vars, panicked, selection_vars, jit_vars, bindings_vars>>

\* The fields of `ReverseProxy` as one record, on which the methods operate.
Self ==
    [clients |-> clients,
     clients_free |-> clients_free,
     clients_with_server_agnostic_request_waiting |->
         clients_with_server_agnostic_request_waiting,
     client_server_specific_requests_queued |->
         client_server_specific_requests_queued,
     clients_with_server_specific_request_queued |->
         clients_with_server_specific_request_queued,
     servers |-> servers,
     servers_free |-> servers_free,
     requests_in_progress |-> requests_in_progress,
     active_subscriptions |-> active_subscriptions,
     active_subscriptions_by_client |-> active_subscriptions_by_client]

EmptyMap == [k \in {} |-> 0]

MapRemove(m, key) == [k \in DOMAIN m \ {key} |-> m[k]]

MapInsert(m, key, value) == [k \in DOMAIN m \cup {key} |-> IF k = key THEN value ELSE m[k]]

VacantClient ==
    [occupied |-> FALSE,
     num_unanswered_requests |-> 0,
     max_unanswered_parallel_requests |-> 0,
     num_legacy_api_subscriptions |-> 0,
     max_legacy_api_subscriptions |-> 0,
     num_chainhead_follow_subscriptions |-> 0,
     max_chainhead_follow_subscriptions |-> 0,
     num_transactions_subscriptions |-> 0,
     max_transactions_subscriptions |-> 0,
     server_agnostic_requests_queue |-> <<>>,
     json_rpc_responses_queue |-> <<>>,
     legacy_api_assigned_server |-> None,
     user_data |-> FALSE]

VacantServer == [occupied |-> FALSE, is_blacklisted |-> FALSE]

\* slab::Slab::len: the number of occupied slots.
SlabLen(slab) == Cardinality({k \in DOMAIN slab : slab[k].occupied})

\* slab::Slab::insert: the key that the next insertion gets: the slot vacated
\* last, or a new slot at the end.
SlabNextKey(slab, free) ==
    IF free # <<>> THEN Head(free) ELSE SlabLen(slab)

\* The first of the two values, whatever the other.
FirstOf(a, b) == a

Max(a, b) == IF a >= b THEN a ELSE b

\* What a method leaves behind: the proxy, the returned value, and whether
\* it panicked (the proxy is then as the panic left it).
Return(p, tag, val) == [p |-> p, ret |-> [tag |-> tag, val |-> val], panic |-> FALSE]

PanicAt(p, what) == [p |-> p, ret |-> [tag |-> "panic", val |-> what], panic |-> TRUE]

------------------------------------------------------------------------------
\* The parsers and builders of the `methods` and `parse` modules

\* methods::parse_jsonrpc_client_to_server: the id and the method call of a
\* well-formed request, or the error.
parse_jsonrpc_client_to_server(request) ==
    IF request.kind = "call"
    THEN [tag |-> "Ok", request_id_json |-> request.id, method |-> request.method]
    ELSE [tag |-> request.kind, request_id_json |-> request.id, method |-> ""]

\* methods::Response::to_json_response: the success response with the given
\* id.  A response is modelled by its id; its result, which no operation
\* reads, is left out.
to_json_response(response, request_id_json) ==
    [kind |-> "response", id |-> request_id_json]

\* parse::build_request
build_request(id_json, method, params_json) ==
    [kind |-> "request", id |-> id_json, method |-> method, params |-> params_json]

\* parse::build_success_response
build_success_response(id_json, result_json) ==
    [kind |-> "response", id |-> id_json]

\* methods::ServerToClient::set_subscription followed by
\* to_json_request_object_parameters: the notification with the subscription
\* id replaced, modelled by that id.
rewritten_notification(client_notification_id, payload) ==
    [kind |-> "notification", id |-> client_notification_id]

------------------------------------------------------------------------------
\* Clients

\* ReverseProxy::try_remove_client
try_remove_client(p, client_id) ==
    IF ~p.clients[client_id].occupied THEN PanicAt(p, "index")
    ELSE IF p.clients[client_id].user_data THEN Return(p, "unit", <<>>)
    ELSE IF p.clients[client_id].num_unanswered_requests # 0 THEN Return(p, "unit", <<>>)
    ELSE IF client_id \in p.clients_with_server_agnostic_request_waiting
        THEN PanicAt(p, "debug_assert")
    ELSE IF \E k \in DOMAIN p.client_server_specific_requests_queued : k[1] = client_id
        THEN PanicAt(p, "debug_assert")
    ELSE IF \E k \in DOMAIN p.active_subscriptions_by_client : k[1] = client_id
        THEN Return(p, "unit", <<>>)
    ELSE Return([p EXCEPT !.clients[client_id] = VacantClient,
                          !.clients_free = <<client_id>> \o @],
                "unit", <<>>)

\* The `Client` that ReverseProxy::insert_client creates.
NewClient(config) ==
    [occupied |-> TRUE,
     num_unanswered_requests |-> 0,
     max_unanswered_parallel_requests |-> config.max_unanswered_parallel_requests,
     num_legacy_api_subscriptions |-> 0,
     max_legacy_api_subscriptions |-> config.max_legacy_api_subscriptions,
     num_chainhead_follow_subscriptions |-> 0,
     max_chainhead_follow_subscriptions |->
         Max(config.max_chainhead_follow_subscriptions, 2),
     num_transactions_subscriptions |-> 0,
     max_transactions_subscriptions |-> config.max_transactions_subscriptions,
     server_agnostic_requests_queue |-> <<>>,
     json_rpc_responses_queue |-> <<>>,
     legacy_api_assigned_server |-> None,
     user_data |-> TRUE]

\* ReverseProxy::insert_client
insert_client(p, config) ==
    LET key == SlabNextKey(p.clients, p.clients_free) IN
    Return([p EXCEPT !.clients[key] = NewClient(config),
                     !.clients_free = IF @ # <<>> THEN Tail(@) ELSE @],
           "ClientId", key)

\* ReverseProxy::remove_client
remove_client(p, client_id) ==
    LET client == p.clients[client_id]
        in_set == client_id \in p.clients_with_server_agnostic_request_waiting
        p1 == [p EXCEPT !.clients[client_id].user_data = FALSE]
    IN
    IF client.server_agnostic_requests_queue # <<>> /\ ~in_set
        THEN PanicAt(p1, "debug_assert")
    ELSE IF client.server_agnostic_requests_queue = <<>> /\ in_set
        THEN PanicAt(p1, "debug_assert")
    ELSE
        LET p2 == [p1 EXCEPT
                     !.clients_with_server_agnostic_request_waiting =
                         @ \ {client_id},
                     !.clients[client_id].server_agnostic_requests_queue = <<>>]
            o == try_remove_client(p2, client_id)
        IN IF o.panic THEN o ELSE Return(o.p, "user_data", client_id)

\* The same check, off by one.
QuotaReachedOffByOne(num_unanswered_requests, max_unanswered_parallel_requests) ==
    num_unanswered_requests > max_unanswered_parallel_requests

\* The check of the limit to the number of unanswered requests.
QuotaReached(num_unanswered_requests, max_unanswered_parallel_requests) ==
    num_unanswered_requests >= max_unanswered_parallel_requests

\* The same check, off by one.
SubscriptionLimitReachedOffByOne(num_subscriptions, max_subscriptions) ==
    num_subscriptions > max_subscriptions

\* The check of the limit to the number of subscriptions of one kind.
SubscriptionLimitReached(num_subscriptions, max_subscriptions) ==
    num_subscriptions >= max_subscriptions

\* The response pushed at the wrong end of the queue.
PushResponseFront(json_rpc_responses_queue, response) ==
    <<response>> \o json_rpc_responses_queue

\* The response pushed twice.
PushResponseTwice(json_rpc_responses_queue, response) ==
    Append(Append(json_rpc_responses_queue, response), response)

\* `json_rpc_responses_queue.push_back(...)`
PushResponse(json_rpc_responses_queue, response) ==
    Append(json_rpc_responses_queue, response)

\* ReverseProxy::insert_client_json_rpc_request
insert_client_json_rpc_request(p, client_id, request) ==
    LET client == p.clients[client_id] IN
    IF QuotaReached(client.num_unanswered_requests,
                    client.max_unanswered_parallel_requests)
    THEN Return(p, "Err", <<>>)
    ELSE
    LET p1 == [p EXCEPT !.clients[client_id].num_unanswered_requests = @ + 1]
        parsed == parse_jsonrpc_client_to_server(request)
        method == parsed.method
    IN
    IF parsed.tag # "Ok" THEN PanicAt(p1, "todo")
    ELSE IF method \in LocalMethods THEN
        Return([p1 EXCEPT !.clients[client_id].json_rpc_responses_queue =
                    PushResponse(@, to_json_response(method,
                                                     parsed.request_id_json))],
               "Ok", <<>>)
    ELSE IF method \in LegacySubscribeMethods THEN
        IF SubscriptionLimitReached(client.num_legacy_api_subscriptions,
                                    client.max_legacy_api_subscriptions)
        THEN PanicAt(p1, "todo")
        ELSE Return([p1 EXCEPT
                       !.clients[client_id].num_legacy_api_subscriptions = @ + 1],
                    "Ok", <<>>)
    ELSE IF method \in ChainHeadFollowMethods THEN
        IF SubscriptionLimitReached(client.num_chainhead_follow_subscriptions,
                                    client.max_chainhead_follow_subscriptions)
        THEN PanicAt(p1, "todo")
        ELSE Return([p1 EXCEPT
                       !.clients[client_id].num_chainhead_follow_subscriptions = @ + 1],
                    "Ok", <<>>)
    ELSE IF method \in TransactionsMethods THEN
        IF SubscriptionLimitReached(client.num_transactions_subscriptions,
                                    client.max_transactions_subscriptions)
        THEN PanicAt(p1, "todo")
        ELSE Return([p1 EXCEPT
                       !.clients[client_id].num_transactions_subscriptions = @ + 1],
                    "Ok", <<>>)
    ELSE Return(p1, "Ok", <<>>)

\* The response taken from the back of the queue.
next_client_json_rpc_response_from_back(p, client_id) ==
    LET queue == p.clients[client_id].json_rpc_responses_queue IN
    IF queue = <<>> THEN Return(p, "None", <<>>)
    ELSE Return([p EXCEPT !.clients[client_id].json_rpc_responses_queue =
                     SubSeq(@, 1, Len(@) - 1)],
                "Some", queue[Len(queue)])

\* ReverseProxy::next_client_json_rpc_response
next_client_json_rpc_response(p, client_id) ==
    LET queue == p.clients[client_id].json_rpc_responses_queue IN
    IF queue = <<>> THEN Return(p, "None", <<>>)
    ELSE Return([p EXCEPT !.clients[client_id].json_rpc_responses_queue = Tail(@)],
                "Some", Head(queue))

------------------------------------------------------------------------------
\* Servers

\* The elements of a set of integers, in increasing order.
RECURSIVE SortedSeq(_)
SortedSeq(S) ==
    IF S = {} THEN <<>>
    ELSE LET m == CHOOSE x \in S : \A y \in S : x <= y
         IN <<m>> \o SortedSeq(S \ {m})

\* ReverseProxy::insert_server
insert_server(p) ==
    LET key == SlabNextKey(p.servers, p.servers_free) IN
    Return([p EXCEPT !.servers[key] = [occupied |-> TRUE, is_blacklisted |-> FALSE],
                     !.servers_free = IF @ # <<>> THEN Tail(@) ELSE @],
           "ServerId", key)

\* `requests_to_cancel` of blacklist_server, in the order of the iterator: the
\* requests in progress on the server, by id, then for each client with a
\* queue for that server (by client id) the removal of the queue from
\* `client_server_specific_requests_queued`, which the iterator does when it
\* reaches that client, followed by the requests of the queue.
RequestsDispatched(p, server_id) ==
    LET ids == SelectSeq(ServerRequestIdsInOrder,
                         LAMBDA id : <<server_id, id>> \in DOMAIN p.requests_in_progress)
    IN [i \in 1 .. Len(ids) |->
          [take_queue |-> FALSE,
           client_id |-> p.requests_in_progress[<<server_id, ids[i]>>][1],
           request_info |-> p.requests_in_progress[<<server_id, ids[i]>>][2]]]

RECURSIVE RequestsQueued(_, _, _)
RequestsQueued(p, server_id, client_ids) ==
    IF client_ids = <<>> THEN <<>>
    ELSE
    LET client_id == Head(client_ids)
        key == <<client_id, server_id>>
        queue == IF key \in DOMAIN p.client_server_specific_requests_queued
                 THEN p.client_server_specific_requests_queued[key]
                 ELSE <<>>
    IN <<[take_queue |-> TRUE, client_id |-> client_id, request_info |-> <<>>]>>
       \o [i \in 1 .. Len(queue) |->
              [take_queue |-> FALSE, client_id |-> client_id,
               request_info |-> queue[i]]]
       \o RequestsQueued(p, server_id, Tail(client_ids))

\* The loop of blacklist_server over `requests_to_cancel`.
RECURSIVE cancel_requests(_, _, _)
cancel_requests(p, server_id, requests_to_cancel) ==
    IF requests_to_cancel = <<>> THEN Return(p, "unit", <<>>)
    ELSE
    LET item == Head(requests_to_cancel)
        client_id == item.client_id
        rest == Tail(requests_to_cancel)
    IN
    IF item.take_queue THEN
        IF <<client_id, server_id>> \notin
               DOMAIN p.client_server_specific_requests_queued
        THEN PanicAt(p, "unreachable")
        ELSE cancel_requests(
                 [p EXCEPT !.client_server_specific_requests_queued =
                      MapRemove(@, <<client_id, server_id>>)],
                 server_id, rest)
    ELSE IF ~p.clients[client_id].occupied THEN PanicAt(p, "index")
    ELSE IF ~p.clients[client_id].user_data THEN
        IF p.clients[client_id].num_unanswered_requests = 0
        THEN PanicAt(p, "overflow")
        ELSE
        LET o == try_remove_client(
                     [p EXCEPT !.clients[client_id].num_unanswered_requests = @ - 1],
                     client_id)
        IN IF o.panic THEN o ELSE cancel_requests(o.p, server_id, rest)
    ELSE cancel_requests(
             [p EXCEPT !.clients[client_id].server_agnostic_requests_queue =
                  <<item.request_info>> \o @],
             server_id, rest)

\* The flag flipped instead of set, and nothing else done.
blacklist_server_toggling(p, server_id) ==
    IF ~p.servers[server_id].occupied THEN PanicAt(p, "index")
    ELSE Return([p EXCEPT !.servers[server_id].is_blacklisted = ~@],
                "unit", <<>>)

\* ReverseProxy::blacklist_server
blacklist_server(p, server_id) ==
    IF ~p.servers[server_id].occupied THEN PanicAt(p, "index")
    ELSE IF p.servers[server_id].is_blacklisted THEN Return(p, "unit", <<>>)
    ELSE
    LET of_server(keys) == {k \in keys : k[1] = server_id}
        requests_to_cancel ==
            RequestsDispatched(p, server_id)
            \o RequestsQueued(p, server_id,
                   SortedSeq({k[2] : k \in
                       of_server(p.clients_with_server_specific_request_queued)}))
        p1 == [p EXCEPT
                 !.servers[server_id].is_blacklisted = TRUE,
                 !.active_subscriptions =
                     [k \in DOMAIN @ \ of_server(DOMAIN @) |-> @[k]],
                 !.clients_with_server_specific_request_queued =
                     @ \ of_server(@),
                 !.requests_in_progress =
                     [k \in DOMAIN @ \ of_server(DOMAIN @) |-> @[k]]]
    IN cancel_requests(p1, server_id, requests_to_cancel)

\* ReverseProxy::remove_server
remove_server(p, server_id) ==
    LET o == blacklist_server(p, server_id) IN
    IF o.panic THEN o
    ELSE Return([o.p EXCEPT !.servers[server_id] = VacantServer,
                            !.servers_free = <<server_id>> \o @],
                "user_data", server_id)

\* `server_specific_weight` of next_proxied_json_rpc_request.
server_specific_weight(num_clients, num_servers) ==
    1 + (Max(num_clients - 1, 0) \div num_servers)

\* The weight of the clients with a queue for the server left out.
PickClientUnweighted(agnostic, specific, weight, index) ==
    IF index < Len(agnostic)
    THEN [client |-> agnostic[index + 1], pick_from_server_specific |-> FALSE]
    ELSE [client |-> specific[(IF index - Len(agnostic) < Len(specific)
                               THEN index - Len(agnostic)
                               ELSE Len(specific) - 1) + 1],
          pick_from_server_specific |-> TRUE]

\* The client that next_proxied_json_rpc_request picks for a value of `index`,
\* and whether it is picked for its server-specific queue.  `agnostic` stands
\* for the iteration of the hash set (here by increasing id), `specific` for
\* the range of the ordered set.
PickClient(agnostic, specific, weight, index) ==
    IF index < Len(agnostic)
    THEN [client |-> agnostic[index + 1], pick_from_server_specific |-> FALSE]
    ELSE [client |-> specific[((index - Len(agnostic)) \div weight) + 1],
          pick_from_server_specific |-> TRUE]

\* The blacklist check left out.
SkipsNoServer(server) == FALSE

\* The blacklist check at the entry of next_proxied_json_rpc_request.
SkipsServer(server) == server.is_blacklisted

\* The end of an iteration of the loop of next_proxied_json_rpc_request that
\* has extracted a request: a new id is drawn and the request is recorded as
\* in progress.
DispatchRequest(p, server_id, client_with_request, queued_request) ==
    { LET inserted ==
              [p EXCEPT !.requests_in_progress =
                  MapInsert(@, <<server_id, new_request_id>>,
                            <<client_with_request, queued_request>>)]
      IN IF <<server_id, new_request_id>> \in DOMAIN p.requests_in_progress
         THEN PanicAt(inserted, "debug_assert")
         ELSE Return(inserted, "Some",
                     build_request(new_request_id, queued_request.method,
                                   queued_request.parameters_json))
      : new_request_id \in ServerRequestIds }

\* The loop of next_proxied_json_rpc_request: every outcome that the random
\* choices allow.
RECURSIVE next_proxied_loop(_, _)
next_proxied_loop(p, server_id) ==
    LET agnostic == SortedSeq(p.clients_with_server_agnostic_request_waiting)
        specific == SortedSeq({k[2] : k \in
                        {x \in p.clients_with_server_specific_request_queued :
                             x[1] = server_id}})
        weight == server_specific_weight(SlabLen(p.clients), SlabLen(p.servers))
        total_weight == Len(agnostic) + weight * Len(specific)
        Iteration(index) ==
            LET pick == PickClient(agnostic, specific, weight, index)
                c == pick.client
                key == <<c, server_id>>
            IN
            IF pick.pick_from_server_specific THEN
                IF key \notin DOMAIN p.client_server_specific_requests_queued
                    THEN {PanicAt(p, "unreachable")}
                ELSE IF p.client_server_specific_requests_queued[key] = <<>>
                    THEN {PanicAt(p, "unreachable")}
                ELSE
                LET requests_queue == p.client_server_specific_requests_queued[key]
                    p1 == IF Tail(requests_queue) = <<>>
                          THEN [p EXCEPT
                                  !.client_server_specific_requests_queued =
                                      MapRemove(@, key),
                                  !.clients_with_server_specific_request_queued =
                                      @ \ {<<server_id, c>>}]
                          ELSE [p EXCEPT
                                  !.client_server_specific_requests_queued[key] =
                                      Tail(@)]
                IN DispatchRequest(p1, server_id, c, Head(requests_queue))
            ELSE
                IF ~p.clients[c].occupied THEN {PanicAt(p, "index")}
                ELSE IF p.clients[c].server_agnostic_requests_queue = <<>>
                    THEN {PanicAt(p, "unreachable")}
                ELSE
                LET request == Head(p.clients[c].server_agnostic_requests_queue)
                    p1 == [p EXCEPT
                             !.clients[c].server_agnostic_requests_queue = Tail(@),
                             !.clients_with_server_agnostic_request_waiting =
                                 IF Tail(p.clients[c].server_agnostic_requests_queue)
                                        = <<>>
                                 THEN @ \ {c} ELSE @]
                    other_server == p.clients[c].legacy_api_assigned_server
                    other_key == <<c, other_server>>
                IN
                IF request.is_legacy_api_server_specific
                   /\ other_server # None /\ other_server # server_id
                THEN
                    IF other_key \in DOMAIN p1.client_server_specific_requests_queued
                    THEN next_proxied_loop(
                             [p1 EXCEPT
                                !.client_server_specific_requests_queued[other_key] =
                                    <<request>> \o @],
                             server_id)
                    ELSE IF <<other_server, c>> \in
                                p1.clients_with_server_specific_request_queued
                    THEN {PanicAt(p1, "debug_assert")}
                    ELSE next_proxied_loop(
                             [p1 EXCEPT
                                !.client_server_specific_requests_queued =
                                    MapInsert(@, other_key, <<request>>),
                                !.clients_with_server_specific_request_queued =
                                    @ \cup {<<other_server, c>>}],
                             server_id)
                ELSE IF request.is_legacy_api_server_specific
                        /\ other_server = None
                THEN DispatchRequest(
                         [p1 EXCEPT !.clients[c].legacy_api_assigned_server =
                              server_id],
                         server_id, c, request)
                ELSE DispatchRequest(p1, server_id, c, request)
    IN
    IF total_weight = 0 THEN {PanicAt(p, "gen_range")}
    ELSE UNION {Iteration(index) : index \in 0 .. (total_weight - 1)}

\* ReverseProxy::next_proxied_json_rpc_request
next_proxied_json_rpc_request(p, server_id) ==
    IF ~p.servers[server_id].occupied THEN {PanicAt(p, "index")}
    ELSE IF SkipsServer(p.servers[server_id]) THEN {Return(p, "None", <<>>)}
    ELSE next_proxied_loop(p, server_id)

\* The same value returned without blacklisting the server.
BlacklistedInNameOnly(p, server_id) ==
    Return(p, "Blacklisted", <<>>)

\* What insert_proxied_json_rpc_response returns after blacklisting the server.
Blacklisted(p, server_id) ==
    LET o == blacklist_server(p, server_id) IN
    IF o.panic THEN o ELSE Return(o.p, "Blacklisted", <<>>)

\* ReverseProxy::insert_proxied_json_rpc_response
insert_proxied_json_rpc_response(p, server_id, response) ==
    IF response.kind = "parse_error"
       \/ (response.kind = "error" /\ response.code = InternalError)
    THEN Blacklisted(p, server_id)
    ELSE IF response.kind = "success" THEN
        LET key == <<server_id, response.id>> IN
        IF key \notin DOMAIN p.requests_in_progress
        THEN Blacklisted(p, server_id)
        ELSE
        LET client_id == p.requests_in_progress[key][1]
            request_info == p.requests_in_progress[key][2]
            p1 == [p EXCEPT !.requests_in_progress = MapRemove(@, key)]
        IN
        IF ~p1.clients[client_id].occupied THEN PanicAt(p1, "index")
        ELSE IF ~p1.clients[client_id].user_data THEN
            LET o == try_remove_client(p1, client_id) IN
            IF o.panic THEN o ELSE Return(o.p, "Discarded", <<>>)
        ELSE Return([p1 EXCEPT !.clients[client_id].json_rpc_responses_queue =
                         PushResponse(@, build_success_response(
                                             request_info.id_json, response.payload))],
                    "Ok", client_id)
    ELSE IF response.kind = "error" THEN
        \* The error response is built and dropped.
        Return(p, "unit", <<>>)
    ELSE IF response.kind = "notification" THEN
        LET key == <<server_id, response.subscription>> IN
        IF key \notin DOMAIN p.active_subscriptions
        THEN Blacklisted(p, server_id)
        ELSE
        LET client_id == p.active_subscriptions[key][1]
            client_notification_id == p.active_subscriptions[key][2]
        IN
        IF ~p.clients[client_id].occupied THEN PanicAt(p, "index")
        ELSE IF ~p.clients[client_id].user_data THEN Return(p, "Discarded", <<>>)
        ELSE Return([p EXCEPT !.clients[client_id].json_rpc_responses_queue =
                         PushResponse(@, rewritten_notification(
                                             client_notification_id,
                                             response.payload))],
                    "Ok", client_id)
    ELSE Blacklisted(p, server_id)

------------------------------------------------------------------------------
\* ReverseProxy::new

\* The fields of the `ReverseProxy` that ReverseProxy::new creates.
new ==
    [clients |-> [c \in ClientIds |-> VacantClient],
     clients_free |-> <<>>,
     clients_with_server_agnostic_request_waiting |-> {},
     client_server_specific_requests_queued |-> EmptyMap,
     clients_with_server_specific_request_queued |-> {},
     servers |-> [s \in ServerIds |-> VacantServer],
     servers_free |-> <<>>,
     requests_in_progress |-> EmptyMap,
     active_subscriptions |-> EmptyMap,
     active_subscriptions_by_client |-> EmptyMap]

\* The variables hold the fields of the proxy `p`.
Holds(p) ==
    /\ clients' = p.clients
    /\ clients_free' = p.clients_free
    /\ clients_with_server_agnostic_request_waiting' =
           p.clients_with_server_agnostic_request_waiting
    /\ client_server_specific_requests_queued' =
           p.client_server_specific_requests_queued
    /\ clients_with_server_specific_request_queued' =
           p.clients_with_server_specific_request_queued
    /\ servers' = p.servers
    /\ servers_free' = p.servers_free
    /\ requests_in_progress' = p.requests_in_progress
    /\ active_subscriptions' = p.active_subscriptions
    /\ active_subscriptions_by_client' = p.active_subscriptions_by_client

\* No function of the C bindings has been called.
NoBindings ==
    /\ global_state = None
    /\ chain_json_rpc = <<>>
    /\ json_rpc_responses = <<>>
    /\ streams = <<>>
    /\ threads = <<>>
    /\ bindings_panicked = FALSE

\* No virtual machine has been created.
NoJit ==
    /\ inner = "None"
    /\ shared = "None"
    /\ function_call = "None"
    /\ memory = "None"
    /\ jit_panicked = FALSE

\* No choice of a client is being looked at.
NoSelection ==
    /\ pick_agnostic = <<>>
    /\ pick_specific = <<>>
    /\ pick_num_clients = 0
    /\ pick_num_servers = 0
    /\ pick_index = None
    /\ pick_chosen = None

\* The proxy is as ReverseProxy::new creates it.
Holds0 ==
    /\ clients = new.clients
    /\ clients_free = new.clients_free
    /\ clients_with_server_agnostic_request_waiting =
           new.clients_with_server_agnostic_request_waiting
    /\ client_server_specific_requests_queued =
           new.client_server_specific_requests_queued
    /\ clients_with_server_specific_request_queued =
           new.clients_with_server_specific_request_queued
    /\ servers = new.servers
    /\ servers_free = new.servers_free
    /\ requests_in_progress = new.requests_in_progress
    /\ active_subscriptions = new.active_subscriptions
    /\ active_subscriptions_by_client = new.active_subscriptions_by_client

Init ==
    /\ clients = new.clients
    /\ clients_free = new.clients_free
    /\ clients_with_server_agnostic_request_waiting =
           new.clients_with_server_agnostic_request_waiting
    /\ client_server_specific_requests_queued =
           new.client_server_specific_requests_queued
    /\ clients_with_server_specific_request_queued =
           new.clients_with_server_specific_request_queued
    /\ servers = new.servers
    /\ servers_free = new.servers_free
    /\ requests_in_progress = new.requests_in_progress
    /\ active_subscriptions = new.active_subscriptions
    /\ active_subscriptions_by_client = new.active_subscriptions_by_client
    /\ panicked = FALSE
    /\ NoSelection
    /\ NoJit
    /\ NoBindings

\* The effect of a call whose outcome is `o`: the proxy becomes what the
\* method made of it; a panic unwinds, the proxy is dropped, and nothing is
\* called any more.
Becomes(o) ==
    /\ IF o.panic
       THEN Holds(new) /\ panicked' = TRUE
       ELSE Holds(o.p) /\ panicked' = FALSE
    /\ UNCHANGED <<selection_vars, jit_vars, bindings_vars>>

------------------------------------------------------------------------------
\* The operations of the public API, called with the arguments that the API
\* allows: a client that has been inserted and not removed, a server that has
\* been inserted and not removed.

LiveClients == {c \in ClientIds : clients[c].occupied /\ clients[c].user_data}

LiveServers == {s \in ServerIds : servers[s].occupied}

InsertClient ==
    /\ ~panicked
    /\ SlabNextKey(clients, clients_free) \in ClientIds
    /\ \E config \in ClientConfigs :
        /\ Becomes(insert_client(Self, config))

RemoveClient ==
    /\ ~panicked
    /\ \E client_id \in LiveClients :
        /\ Becomes(remove_client(Self, client_id))

InsertClientJsonRpcRequest ==
    /\ ~panicked
    /\ \E client_id \in LiveClients, request \in ClientRequests :
        /\ Becomes(insert_client_json_rpc_request(Self, client_id, request))

NextClientJsonRpcResponse ==
    /\ ~panicked
    /\ \E client_id \in LiveClients :
        /\ Becomes(next_client_json_rpc_response(Self, client_id))

InsertServer ==
    /\ ~panicked
    /\ SlabNextKey(servers, servers_free) \in ServerIds
    /\ Becomes(insert_server(Self))

RemoveServer ==
    /\ ~panicked
    /\ \E server_id \in LiveServers :
        /\ Becomes(remove_server(Self, server_id))

NextProxiedJsonRpcRequest ==
    /\ ~panicked
    /\ \E server_id \in LiveServers :
        /\ \E o \in next_proxied_json_rpc_request(Self, server_id) : Becomes(o)

InsertProxiedJsonRpcResponse ==
    /\ ~panicked
    /\ \E server_id \in LiveServers, response \in ServerMessages :
        /\ Becomes(insert_proxied_json_rpc_response(Self, server_id, response))

Next ==
    \/ InsertClient
    \/ RemoveClient
    \/ InsertClientJsonRpcRequest
    \/ NextClientJsonRpcResponse
    \/ InsertServer
    \/ RemoveServer
    \/ NextProxiedJsonRpcRequest
    \/ InsertProxiedJsonRpcResponse

Spec == Init /\ [][Next]_vars

------------------------------------------------------------------------------
\* Properties

Occupied(slab) == {k \in DOMAIN slab : slab[k].occupied}

RECURSIVE SumOver(_, _)
SumOver(f, S) ==
    IF S = {} THEN 0
    ELSE LET x == CHOOSE y \in S : TRUE IN f[x] + SumOver(f, S \ {x})

\* The number of requests waiting in the queues of the proxy `p`.
NumQueuedRequests(p) ==
    SumOver([c \in ClientIds |-> Len(p.clients[c].server_agnostic_requests_queue)],
            ClientIds)
    + SumOver([k \in DOMAIN p.client_server_specific_requests_queued |->
                   Len(p.client_server_specific_requests_queued[k])],
              DOMAIN p.client_server_specific_requests_queued)

\* No operation adds a request to a queue of requests: the queues, the table
\* of the requests in progress and the tables of the subscriptions stay empty,
\* and no client is given a legacy server.
NothingIsEverQueued ==
    /\ NumQueuedRequests(Self) = 0
    /\ clients_with_server_agnostic_request_waiting = {}
    /\ clients_with_server_specific_request_queued = {}
    /\ DOMAIN requests_in_progress = {}
    /\ DOMAIN active_subscriptions = {}
    /\ DOMAIN active_subscriptions_by_client = {}
    /\ \A c \in ClientIds : clients[c].legacy_api_assigned_server = None

\* C1: every client has at most as many unanswered requests as its limit
\* allows, and at most as many subscriptions of each of the three kinds as
\* the limit of that kind allows.
C1_CountersWithinLimits ==
    \A c \in Occupied(clients) :
        /\ clients[c].num_unanswered_requests
               <= clients[c].max_unanswered_parallel_requests
        /\ clients[c].num_legacy_api_subscriptions
               <= clients[c].max_legacy_api_subscriptions
        /\ clients[c].num_chainhead_follow_subscriptions
               <= clients[c].max_chainhead_follow_subscriptions
        /\ clients[c].num_transactions_subscriptions
               <= clients[c].max_transactions_subscriptions

\* A client that has used up its limit of unanswered requests and its limit
\* of legacy subscriptions.
C1_Witness ==
    \E c \in LiveClients :
        /\ clients[c].num_unanswered_requests >= 2
        /\ clients[c].num_unanswered_requests
               = clients[c].max_unanswered_parallel_requests
        /\ clients[c].num_legacy_api_subscriptions >= 1
        /\ clients[c].num_legacy_api_subscriptions
               = clients[c].max_legacy_api_subscriptions

\* C2: a request inserted by a client that has as many unanswered requests
\* as its limit is refused with the error, and the proxy is left as it was.
C2_RefusalLeavesStateUntouched ==
    \A c \in LiveClients, request \in ClientRequests :
        clients[c].num_unanswered_requests
            = clients[c].max_unanswered_parallel_requests
        => LET o == insert_client_json_rpc_request(Self, c, request)
           IN ~o.panic /\ o.ret.tag = "Err" /\ o.p = Self

\* A client with two unanswered requests, one of them answered and waiting
\* in its queue of responses, whose next request is refused.
C2_Witness ==
    \E c \in LiveClients, request \in ClientRequests :
        /\ clients[c].num_unanswered_requests = 2
        /\ clients[c].json_rpc_responses_queue # <<>>
        /\ insert_client_json_rpc_request(Self, c, request).ret.tag = "Err"

\* C3: when next_client_json_rpc_response returns a response (not a
\* notification), the number of unanswered requests of the client goes down
\* by one, and the client can then insert a request.
C3_ResponseFreesOneRequest ==
    \A c \in LiveClients :
        (/\ clients[c].json_rpc_responses_queue # <<>>
         /\ Head(clients[c].json_rpc_responses_queue).kind = "response")
        => LET o == next_client_json_rpc_response(Self, c)
           IN /\ o.ret.tag = "Some"
              /\ o.p.clients[c].num_unanswered_requests
                     = clients[c].num_unanswered_requests - 1
              /\ \A request \in ClientRequests :
                     insert_client_json_rpc_request(o.p, c, request).ret.tag
                         # "Err"

\* C4: an insert_client_json_rpc_request that returns Ok has either appended
\* one response to the queue of the client, or added one request to one
\* queue of requests, and not both.
C4_OkAnswersOrQueues ==
    \A c \in LiveClients, request \in ClientRequests :
        LET o == insert_client_json_rpc_request(Self, c, request)
            responses == Len(o.p.clients[c].json_rpc_responses_queue)
                         - Len(clients[c].json_rpc_responses_queue)
            requests == NumQueuedRequests(o.p) - NumQueuedRequests(Self)
        IN (~o.panic /\ o.ret.tag = "Ok")
           => \/ responses = 1 /\ requests = 0
              \/ responses = 0 /\ requests = 1

\* C5: a request for one of the four methods that the proxy answers itself,
\* from a client below its limit, is accepted; it appends to the queue of
\* that client one success response with the id of the request, changes
\* nothing else but the count of unanswered requests, and no server is
\* given a request by next_proxied_json_rpc_request afterwards.
C5_LocalMethodsAnsweredLocally ==
    \A c \in LiveClients, request \in ClientRequests :
        (/\ request.kind = "call"
         /\ request.method \in LocalMethods
         /\ clients[c].num_unanswered_requests
                < clients[c].max_unanswered_parallel_requests)
        => LET o == insert_client_json_rpc_request(Self, c, request)
           IN /\ ~o.panic /\ o.ret.tag = "Ok"
              /\ o.p = [Self EXCEPT
                          !.clients[c].num_unanswered_requests = @ + 1,
                          !.clients[c].json_rpc_responses_queue =
                              Append(@, [kind |-> "response", id |-> request.id])]
              /\ NumQueuedRequests(o.p) = 0
              /\ \A s \in Occupied(o.p.servers) :
                     \A polled \in next_proxied_json_rpc_request(o.p, s) :
                         polled.ret.tag # "Some"

\* A client whose two requests, with different ids, have both been answered
\* by the proxy, while a server exists.
C5_Witness ==
    \E c \in LiveClients :
        /\ Len(clients[c].json_rpc_responses_queue) = 2
        /\ clients[c].json_rpc_responses_queue[1].kind = "response"
        /\ clients[c].json_rpc_responses_queue[1].id
               # clients[c].json_rpc_responses_queue[2].id
        /\ \E s \in LiveServers : ~servers[s].is_blacklisted

\* The servers that have been blacklisted, and those that have been removed.
Gone(p) ==
    {s \in ServerIds :
         \/ p.servers[s].occupied /\ p.servers[s].is_blacklisted
         \/ \E i \in 1 .. Len(p.servers_free) : p.servers_free[i] = s}

\* C9: no client has a blacklisted or removed server as its legacy server,
\* and, once a server is blacklisted or removed, a legacy request that a
\* client inserts can be assigned to a server that is not blacklisted by the
\* next poll of such a server.
C9_LegacyClientsMoveToAnotherServer ==
    /\ \A c \in Occupied(clients) :
           clients[c].legacy_api_assigned_server = None
           \/ clients[c].legacy_api_assigned_server \notin Gone(Self)
    /\ \A c \in LiveClients, s \in LiveServers :
           LET request == [kind |-> "call", id |-> "7",
                           method |-> "chain_getBlock", params |-> "[]"]
               o == insert_client_json_rpc_request(Self, c, request)
           IN (/\ Gone(Self) # {}
               /\ ~servers[s].is_blacklisted
               /\ clients[c].legacy_api_assigned_server = None
               /\ ~o.panic /\ o.ret.tag = "Ok")
              => \E polled \in next_proxied_json_rpc_request(o.p, s) :
                     /\ ~polled.panic
                     /\ polled.p.clients[c].legacy_api_assigned_server
                            \in ServerIds \ Gone(polled.p)

\* The requests in progress on server `s`.
InProgressOn(in_progress, s) == {k \in DOMAIN in_progress : k[1] = s}

\* C10: a poll of a blacklisted server returns None and changes nothing; a
\* blacklisted server stays blacklisted for as long as it is there, and no
\* request is recorded as in progress on it any more.
C10_BlacklistedServerGetsNoWork ==
    /\ [](\A s \in LiveServers :
              servers[s].is_blacklisted
              => next_proxied_json_rpc_request(Self, s)
                     = {Return(Self, "None", <<>>)})
    /\ [][\A s \in LiveServers :
              (servers[s].is_blacklisted /\ servers'[s].occupied)
              => /\ servers'[s].is_blacklisted
                 /\ InProgressOn(requests_in_progress', s)
                        \subseteq InProgressOn(requests_in_progress, s)]_vars

\* A blacklisted server beside a server that is not, with a live client.
C10_Witness ==
    /\ \E s \in LiveServers : servers[s].is_blacklisted
    /\ \E s \in LiveServers : ~servers[s].is_blacklisted
    /\ LiveClients # {}

\* The messages of a server that show that it misbehaves: a success response
\* to a request that is not in progress on it, an internal error, a parse
\* error, a notification of a subscription that it does not have, and a text
\* that is neither a response nor a notification.
BadMessage(p, s, m) ==
    \/ m.kind = "success" /\ <<s, m.id>> \notin DOMAIN p.requests_in_progress
    \/ m.kind = "error" /\ m.code = InternalError
    \/ m.kind = "parse_error"
    \/ m.kind = "notification"
           /\ <<s, m.subscription>> \notin DOMAIN p.active_subscriptions
    \/ m.kind = "garbage"

\* C13: a message that shows that the server misbehaves makes
\* insert_proxied_json_rpc_response return Blacklisted and leaves the server
\* blacklisted, and nothing is appended to the queue of responses of any
\* client.
C13_BadMessageBlacklistsServer ==
    \A s \in LiveServers, m \in ServerMessages :
        BadMessage(Self, s, m)
        => LET o == insert_proxied_json_rpc_response(Self, s, m)
           IN /\ ~o.panic /\ o.ret.tag = "Blacklisted"
              /\ o.p.servers[s].occupied /\ o.p.servers[s].is_blacklisted
              /\ \A c \in ClientIds :
                     o.p.clients[c].json_rpc_responses_queue
                         = clients[c].json_rpc_responses_queue

\* A server that a message has blacklisted, still in the list of servers,
\* while a client has exactly one response waiting and another server is not
\* blacklisted.
C13_Witness ==
    \E s, t \in LiveServers, c \in LiveClients :
        /\ servers[s].is_blacklisted /\ ~servers[t].is_blacklisted
        /\ Len(clients[c].json_rpc_responses_queue) = 1
        /\ \E m \in ServerMessages :
               /\ BadMessage(Self, t, m)
               /\ insert_proxied_json_rpc_response(Self, t, m).ret.tag
                      = "Blacklisted"

\* C17: a client that is removed when it has nothing left (its only request
\* was answered and the response has been pulled, it has no queue for a
\* server and no subscription) is dropped from the list of clients by
\* remove_client itself.
C17_IdleClientIsDroppedWhenRemoved ==
    \A c \in LiveClients :
        (/\ clients[c].num_unanswered_requests = 1
         /\ Len(clients[c].json_rpc_responses_queue) = 1
         /\ clients[c].json_rpc_responses_queue[1].kind = "response"
         /\ clients[c].num_legacy_api_subscriptions = 0
         /\ clients[c].num_chainhead_follow_subscriptions = 0
         /\ clients[c].num_transactions_subscriptions = 0
         /\ \A k \in DOMAIN client_server_specific_requests_queued : k[1] # c
         /\ \A k \in DOMAIN active_subscriptions_by_client : k[1] # c
         /\ \A k \in DOMAIN requests_in_progress :
                requests_in_progress[k][1] # c)
        => LET pulled == next_client_json_rpc_response(Self, c)
               removed == remove_client(pulled.p, c)
           IN /\ pulled.ret.tag = "Some"
              /\ pulled.p.clients[c].json_rpc_responses_queue = <<>>
              /\ ~removed.panic
              /\ ~removed.p.clients[c].occupied

\* C18: a request that a client has had accepted while there was no server,
\* and that the proxy does not answer itself, can be handed to a server that
\* is added afterwards: some choice of the poll of that server returns a
\* request.  (Without this, no fairness of the random choice hands it out.)
C18_WaitingRequestIsHandedOut ==
    \A c \in LiveClients, request \in ClientRequests :
        LET accepted == insert_client_json_rpc_request(Self, c, request)
            added == insert_server(accepted.p)
        IN (/\ LiveServers = {}
            /\ request.kind = "call" /\ request.method \notin LocalMethods
            /\ ~accepted.panic /\ accepted.ret.tag = "Ok")
           => \E polled \in next_proxied_json_rpc_request(added.p,
                                                          added.ret.val) :
                  ~polled.panic /\ polled.ret.tag = "Some"

\* C19: a poll of a server that is not blacklisted, when no client has a
\* request in its server-agnostic queue and no client has a queue for that
\* server, returns None and changes nothing.
C19_IdlePollReturnsNone ==
    \A s \in LiveServers :
        (/\ ~servers[s].is_blacklisted
         /\ clients_with_server_agnostic_request_waiting = {}
         /\ \A c \in ClientIds :
                clients[c].server_agnostic_requests_queue = <<>>
         /\ \A k \in clients_with_server_specific_request_queued : k[1] # s)
        => next_proxied_json_rpc_request(Self, s) = {Return(Self, "None", <<>>)}

\* C20: once a server is blacklisted, blacklisting it again changes nothing:
\* remove_server only takes it out of the list of servers, and a message
\* that shows that it misbehaves returns Blacklisted with every client,
\* counter, queue and table as it was.
C20_BlacklistingTwiceChangesNothing ==
    \A s \in LiveServers :
        servers[s].is_blacklisted
        => /\ blacklist_server(Self, s) = Return(Self, "unit", <<>>)
           /\ remove_server(Self, s)
                  = Return([Self EXCEPT !.servers[s] = VacantServer,
                                        !.servers_free = <<s>> \o @],
                           "user_data", s)
           /\ \A m \in ServerMessages :
                  BadMessage(Self, s, m)
                  => insert_proxied_json_rpc_response(Self, s, m)
                         = Return(Self, "Blacklisted", <<>>)

\* A blacklisted server that is then removed, while a client has two
\* unanswered requests, a response waiting and a chainHead_follow
\* subscription counted.
C20_Witness ==
    \E s \in LiveServers, c \in LiveClients :
        /\ servers[s].is_blacklisted
        /\ clients[c].num_unanswered_requests = 2
        /\ clients[c].json_rpc_responses_queue # <<>>
        /\ clients[c].num_chainhead_follow_subscriptions = 1
        /\ remove_server(Self, s).ret.tag = "user_data"
        /\ ~remove_server(Self, s).p.servers[s].occupied

\* The subscribe request `request` is of a kind of which the client already
\* has as many subscriptions as its limit allows.
SubscriptionLimitHit(client, request) ==
    /\ request.kind = "call"
    /\ \/ /\ request.method \in LegacySubscribeMethods
          /\ client.num_legacy_api_subscriptions
                 >= client.max_legacy_api_subscriptions
       \/ /\ request.method \in ChainHeadFollowMethods
          /\ client.num_chainhead_follow_subscriptions
                 >= client.max_chainhead_follow_subscriptions
       \/ /\ request.method \in TransactionsMethods
          /\ client.num_transactions_subscriptions
                 >= client.max_transactions_subscriptions

\* C22: a subscribe request of a kind whose limit the client has reached is
\* refused with a value, not accepted, and the proxy is left as it was, the
\* count of unanswered requests included.
C22_SubscriptionRefusalLeavesStateUntouched ==
    \A c \in LiveClients, request \in ClientRequests :
        (/\ SubscriptionLimitHit(clients[c], request)
         /\ clients[c].num_unanswered_requests
                < clients[c].max_unanswered_parallel_requests)
        => LET o == insert_client_json_rpc_request(Self, c, request)
           IN ~o.panic /\ o.ret.tag # "Ok" /\ o.p = Self

\* C23: insert_client stores the larger of 2 and the configured limit of
\* chainHead_follow subscriptions, and the three other limits as they are
\* configured; every client in the list has a limit of at least 2, and a
\* new client that may have two unanswered requests has two
\* chainHead_unstable_follow requests accepted whatever that configured limit.
C23_ChainHeadFollowLimitIsAtLeastTwo ==
    /\ \A c \in Occupied(clients) :
           clients[c].max_chainhead_follow_subscriptions >= 2
    /\ \A base \in ClientConfigs, follow_limit \in 0 .. (MaxQuota + 1) :
           LET config == [base EXCEPT
                            !.max_chainhead_follow_subscriptions = follow_limit]
               o == insert_client(Self, config)
               c == o.ret.val
               follow(id) == [kind |-> "call", id |-> id,
                              method |-> "chainHead_unstable_follow",
                              params |-> "[]"]
               first == insert_client_json_rpc_request(o.p, c, follow("7"))
               second == insert_client_json_rpc_request(first.p, c,
                                                        follow("\"a\""))
           IN SlabNextKey(clients, clients_free) \in ClientIds
              => /\ ~o.panic
                 /\ o.p.clients[c].max_chainhead_follow_subscriptions
                        = (IF follow_limit < 2 THEN 2 ELSE follow_limit)
                 /\ o.p.clients[c].max_unanswered_parallel_requests
                        = config.max_unanswered_parallel_requests
                 /\ o.p.clients[c].max_legacy_api_subscriptions
                        = config.max_legacy_api_subscriptions
                 /\ o.p.clients[c].max_transactions_subscriptions
                        = config.max_transactions_subscriptions
                 /\ config.max_unanswered_parallel_requests >= 2
                        => /\ ~first.panic /\ first.ret.tag = "Ok"
                           /\ ~second.panic /\ second.ret.tag = "Ok"
                           /\ second.p.clients[c]
                                  .num_chainhead_follow_subscriptions = 2

\* A client configured with no subscription of any kind (its limit of
\* transactions subscriptions, configured like the others, is 0) that has
\* had two chainHead_unstable_follow requests accepted.
C23_Witness ==
    \E c \in LiveClients :
        /\ clients[c].max_transactions_subscriptions = 0
        /\ clients[c].max_legacy_api_subscriptions = 0
        /\ clients[c].max_chainhead_follow_subscriptions = 2
        /\ clients[c].num_chainhead_follow_subscriptions = 2

\* C31: next_client_json_rpc_response returns None, and changes nothing,
\* exactly when the queue of responses of the client is empty; otherwise it
\* returns the response at the head of the queue and leaves the rest of the
\* queue, in its order; and no operation changes the queue of a client
\* other than by taking its head or by appending at its end.
C31_ResponsesAreDeliveredInOrder ==
    /\ [](\A c \in LiveClients :
              LET queue == clients[c].json_rpc_responses_queue
                  o == next_client_json_rpc_response(Self, c)
              IN /\ ~o.panic
                 /\ (o.ret.tag = "None") <=> (queue = <<>>)
                 /\ queue = <<>> => o.p = Self
                 /\ queue # <<>>
                        => /\ o.ret = [tag |-> "Some", val |-> Head(queue)]
                           /\ o.p = [Self EXCEPT
                                       !.clients[c].json_rpc_responses_queue =
                                           Tail(queue)])
    /\ [][\A c \in ClientIds :
              (/\ clients[c].occupied /\ clients[c].user_data
               /\ clients'[c].occupied /\ clients'[c].user_data)
              => LET before == clients[c].json_rpc_responses_queue
                     after == clients'[c].json_rpc_responses_queue
                 IN \/ after = before
                    \/ before # <<>> /\ after = Tail(before)
                    \/ after # <<>>
                          /\ before = SubSeq(after, 1, Len(after) - 1)]_vars

\* A client with two responses waiting, with different ids, of which
\* next_client_json_rpc_response returns the first.
C31_Witness ==
    \E c \in LiveClients :
        LET queue == clients[c].json_rpc_responses_queue IN
        /\ Len(queue) = 2
        /\ queue[1].id # queue[2].id
        /\ next_client_json_rpc_response(Self, c).ret.val = queue[1]
        /\ next_client_json_rpc_response(Self, c).p.clients[c]
               .json_rpc_responses_queue = <<queue[2]>>

------------------------------------------------------------------------------
\* The choice of a client by next_proxied_json_rpc_request, as a function of
\* the two lists of clients, of the number of clients and of servers, and of
\* the value drawn.

\* Number of clients in the lists from which a client is chosen.
MaxPickClients == 3
\* Largest number of clients and of servers in the slabs.
MaxPickSlab == 4

PickClientIds == 0 .. (MaxPickClients - 1)

\* The sequences without repetition of elements of S.
Orderings(S) ==
    {q \in UNION {[1 .. n -> S] : n \in 0 .. Cardinality(S)} :
         \A i, j \in 1 .. Len(q) : i # j => q[i] # q[j]}

\* `total_weight` of next_proxied_json_rpc_request.
total_weight(agnostic, specific, weight) ==
    Len(agnostic) + weight * Len(specific)

PickWeight == server_specific_weight(pick_num_clients, pick_num_servers)

PickTotalWeight == total_weight(pick_agnostic, pick_specific, PickWeight)

\* The hash set is iterated in any order, the range of the ordered set in
\* increasing order; the clients of both lists are in the slab, which holds
\* at least one server, the one that is polled.
PickInit ==
    /\ pick_agnostic \in Orderings(PickClientIds)
    /\ pick_specific \in {SortedSeq(S) : S \in SUBSET PickClientIds}
    /\ pick_num_clients \in 0 .. MaxPickSlab
    /\ pick_num_servers \in 1 .. MaxPickSlab
    /\ \A i \in 1 .. Len(pick_agnostic) : pick_agnostic[i] < pick_num_clients
    /\ \A i \in 1 .. Len(pick_specific) : pick_specific[i] < pick_num_clients
    /\ pick_index = None
    /\ pick_chosen = None
    /\ Holds0
    /\ panicked = FALSE
    /\ NoJit
    /\ NoBindings

\* Lines 646-669: the index is drawn and the client is picked.
ChooseClient ==
    /\ pick_index = None
    /\ \E index \in 0 .. (PickTotalWeight - 1) :
        /\ pick_index' = index
        /\ pick_chosen' = PickClient(pick_agnostic, pick_specific, PickWeight,
                                     index)
    /\ UNCHANGED <<pick_agnostic, pick_specific, pick_num_clients,
                   pick_num_servers, proxy_vars, panicked, jit_vars,
                   bindings_vars>>

PickNext ==
    \/ ChooseClient

PickSpec == PickInit /\ [][PickNext]_vars

\* The values of the index for which `chosen` is picked.
IndexesOf(chosen) ==
    {index \in 0 .. (PickTotalWeight - 1) :
         PickClient(pick_agnostic, pick_specific, PickWeight, index) = chosen}

\* C32: with W = 1 + floor(max(0, |clients| - 1) / |servers|), every value
\* of the index below |A| + W * |B| stays within the list that it selects;
\* each client of A is picked, from its server-agnostic queue, for exactly
\* one value, each client of B, from its queue for the server, for exactly W
\* values; and the client that is picked is picked in that way.
C32_ClientsArePickedByWeight ==
    /\ PickWeight
           = 1 + ((IF pick_num_clients >= 1 THEN pick_num_clients - 1 ELSE 0)
                     \div pick_num_servers)
    /\ \A index \in 0 .. (PickTotalWeight - 1) :
           IF index < Len(pick_agnostic)
           THEN index + 1 \in 1 .. Len(pick_agnostic)
           ELSE ((index - Len(pick_agnostic)) \div PickWeight) + 1
                    \in 1 .. Len(pick_specific)
    /\ \A i \in 1 .. Len(pick_agnostic) :
           Cardinality(IndexesOf([client |-> pick_agnostic[i],
                                  pick_from_server_specific |-> FALSE])) = 1
    /\ \A i \in 1 .. Len(pick_specific) :
           Cardinality(IndexesOf([client |-> pick_specific[i],
                                  pick_from_server_specific |-> TRUE]))
               = PickWeight
    /\ pick_index # None
           => /\ Cardinality(IndexesOf(pick_chosen)) >= 1
              /\ pick_index \in IndexesOf(pick_chosen)
              /\ IF pick_chosen.pick_from_server_specific
                 THEN \E i \in 1 .. Len(pick_specific) :
                          pick_specific[i] = pick_chosen.client
                 ELSE \E i \in 1 .. Len(pick_agnostic) :
                          pick_agnostic[i] = pick_chosen.client

\* A client picked from its queue for the server, with a weight of 2, when
\* two clients have such a queue and another has a server-agnostic request.
C32_Witness ==
    /\ pick_index # None
    /\ pick_chosen.pick_from_server_specific
    /\ PickWeight = 2
    /\ Len(pick_specific) = 2
    /\ Len(pick_agnostic) = 1
    /\ pick_chosen.client = pick_specific[2]

\* ---------------------------------------------------------------------------
\* executor/vm/jit.rs: the virtual machine built on wasmtime.
\*
\* The machine is the record j = [inner, shared, function_call, memory].
\*   inner          the variant of JitInner ("NotStarted", "Executing", "Done",
\*                  "Poisoned"), or "Prepare" while the object is a Prepare
\*                  (a JitPrototype whose memory can be written)
\*   shared         the value behind `Arc<Mutex<Shared>>`
\*   function_call  where the coroutine of JitInner::Executing stands: "wasm"
\*                  (inside Wasm code), "host" (inside the future returned by
\*                  the host function closure, for the import `function`), or
\*                  "none"
\*   memory         the wasmtime::Memory: its size in pages, the minimum and
\*                  maximum of its MemoryType, its address, whether it is the
\*                  imported "env":"memory", and whether the module's `start`
\*                  function, given what the memory holds now, calls an import
\* ---------------------------------------------------------------------------

\* Number of pages after which wasmtime::Memory::grow fails whatever the
\* memory type says (65536 for the 32-bit memories of wasmtime, scaled down).
EngineMaxPages == 3

\* Line 792, 899: size of a Wasm page in bytes.
PageSize == 64 * 1024

\* `Option<ValueType>`: the return type of a host function, and the type of
\* the `Option<WasmValue>` given to `run`.
ValueTypes == {"I32", "I64"}

OptionValueTypes == {"None"} \cup ValueTypes

\* The imports resolved by `symbols` (lines 104-130): `function_index` i is a
\* host function whose `expected_return_ty` is HostFunctions[i].
HostFunctions == <<"None", "I32", "I64">>

\* Lines 491-564: the variants of Shared.
SharedPoisoned ==
    [tag |-> "Poisoned", function_index |-> 0, expected_return_ty |-> "None",
     memory_pointer |-> 0, memory_size |-> 0, return_value |-> "None",
     additional |-> 0]

ExecutingStart == [SharedPoisoned EXCEPT !.tag = "ExecutingStart"]

OutsideFunctionCall == [SharedPoisoned EXCEPT !.tag = "OutsideFunctionCall"]

AbortRequired == [SharedPoisoned EXCEPT !.tag = "AbortRequired"]

EnteredFunctionCall(function_index, expected_return_ty, memory_pointer, memory_size) ==
    [SharedPoisoned EXCEPT !.tag = "EnteredFunctionCall",
                           !.function_index = function_index,
                           !.expected_return_ty = expected_return_ty,
                           !.memory_pointer = memory_pointer,
                           !.memory_size = memory_size]

\* WithinFunctionCall does not hold the function index (lines 747-752).
WithinFunctionCall(expected_return_ty, memory_pointer, memory_size) ==
    [SharedPoisoned EXCEPT !.tag = "WithinFunctionCall",
                           !.expected_return_ty = expected_return_ty,
                           !.memory_pointer = memory_pointer,
                           !.memory_size = memory_size]

MemoryGrowRequired(additional) ==
    [SharedPoisoned EXCEPT !.tag = "MemoryGrowRequired", !.additional = additional]

SharedReturn(return_value) ==
    [SharedPoisoned EXCEPT !.tag = "Return", !.return_value = return_value]

\* Outcome of a method: the machine afterwards and what the caller gets, or a
\* panic and the place of the panic.
JitReturns(j, tag, val) ==
    [j |-> j, ret |-> [tag |-> tag, val |-> val, num |-> 0], panic |-> FALSE]

\* The same, for a method that gives a number.
JitReturnsNum(j, tag, num) ==
    [j |-> j, ret |-> [tag |-> tag, val |-> "None", num |-> num], panic |-> FALSE]

JitPanics(j, what) ==
    [j |-> j, ret |-> [tag |-> "panic", val |-> what, num |-> 0], panic |-> TRUE]

\* Outcome of one poll of the coroutine.
Polled(j, poll) == [j |-> j, poll |-> poll, panic |-> FALSE, what |-> "None"]

PollPanics(j, what) == [j |-> j, poll |-> "None", panic |-> TRUE, what |-> what]

\* wasmtime::Memory::data_size
data_size(m) == m.pages * PageSize

\* wasmtime::Memory::grow fails beyond the maximum of the memory type, and
\* beyond what the engine can address when the type has no maximum.
GrowFails(m, additional) ==
    \/ m.pages + additional > EngineMaxPages
    \/ m.maximum # None /\ m.pages + additional > m.maximum

\* The memory after a successful wasmtime::Memory::grow: growing may move the
\* memory, so that data_ptr either stays or changes.
Grown(m, additional) ==
    IF additional = 0
    THEN {m}
    ELSE {[m EXCEPT !.pages = m.pages + additional, !.data_ptr = d] : d \in {0, 1}}

\* A write to the memory from outside or from the Wasm code. The `start`
\* function of a module reads the imported memory, which outlives the
\* instance (lines 246-248, 299): what it does on the next instantiation can
\* depend on what was written.
Written(m) ==
    {m} \cup (IF m.imported THEN {[m EXCEPT !.start_calls_import = TRUE]} ELSE {})

\* What the Wasm code can do to the memory between two host calls: write to
\* it, and grow it by a page (the `memory.grow` instruction fails without a
\* trap when the memory cannot grow).
GuestMemories(m) ==
    UNION {Written(g) : g \in {m} \cup (IF GrowFails(m, 1) THEN {} ELSE Grown(m, 1))}

\* Lines 136-174: the Wasm code calls the import `function`. The closure
\* replaces `shared` with Poisoned, and the future it returns is polled at once.
HostCall(j, function) ==
    IF j.shared.tag = "OutsideFunctionCall"
    THEN Polled([j EXCEPT !.shared = EnteredFunctionCall(function, HostFunctions[function],
                                                         j.memory.data_ptr, data_size(j.memory)),
                          !.function_call = [at |-> "host", function |-> function]],
                "Pending")
    ELSE IF j.shared.tag = "ExecutingStart"
    THEN Polled([j EXCEPT !.shared = SharedPoisoned,
                          !.function_call = [at |-> "none", function |-> 0]], "ReadyErr")
    ELSE PollPanics([j EXCEPT !.shared = SharedPoisoned], "unreachable:172")

\* The Wasm code runs until it returns, traps, or calls an import.
GuestRuns(j) ==
    UNION {
        LET g == [j EXCEPT !.memory = m]
            finished == [g EXCEPT !.function_call = [at |-> "none", function |-> 0]]
        IN  {Polled(finished, "ReadyOk"), Polled(finished, "ReadyErr")}
            \cup {HostCall(g, function) : function \in DOMAIN HostFunctions}
        : m \in GuestMemories(j.memory)}

\* Lines 178-228: one poll of the future returned by the host function closure.
PollHostFuture(j) ==
    LET expected_return_ty == HostFunctions[j.function_call.function] IN
    CASE j.shared.tag \in {"EnteredFunctionCall", "WithinFunctionCall"} ->
           {Polled(j, "Pending")}
      [] j.shared.tag = "MemoryGrowRequired" ->
           IF GrowFails(j.memory, j.shared.additional)
           THEN {PollPanics(j, "unwrap:199")}
           ELSE {Polled([j EXCEPT !.memory = m,
                                  !.shared = WithinFunctionCall(expected_return_ty,
                                                                m.data_ptr, data_size(m))],
                        "Pending")
                 : m \in Grown(j.memory, j.shared.additional)}
      [] j.shared.tag = "Return" ->
           IF (j.shared.return_value = "None") # (expected_return_ty = "None")
           THEN {PollPanics(j, "assert:213")}
           ELSE GuestRuns([j EXCEPT !.shared = OutsideFunctionCall,
                                    !.function_call = [at |-> "wasm", function |-> 0]])
      [] j.shared.tag = "AbortRequired" ->
           {Polled([j EXCEPT !.function_call = [at |-> "none", function |-> 0]], "ReadyErr")}
      [] OTHER -> {PollPanics(j, "unreachable:227")}

\* `Future::poll(function_call.as_mut(), ..)` (lines 726, 930, 978).
PollCall(j) ==
    IF j.function_call.at = "wasm" THEN GuestRuns(j) ELSE PollHostFuture(j)

\* A comparison that only looks at whether a value is expected and given.
BadValueTyByPresence(expected_return_ty, provided_value_ty) ==
    (expected_return_ty = "None") # (provided_value_ty = "None")

\* Line 628: `expected_return_ty != provided_value_ty`.
BadValueTy(expected_return_ty, provided_value_ty) ==
    expected_return_ty # provided_value_ty

\* Lines 721-773: the end of `run`, once `inner` is Executing.
run_poll(j) ==
    {IF o.panic
     THEN JitPanics(o.j, o.what)
     ELSE IF o.poll \in {"ReadyOk", "ReadyErr"}
     THEN JitReturns([o.j EXCEPT !.inner = "Done"], "Finished", o.poll)
     ELSE IF o.j.shared.tag = "EnteredFunctionCall"
     THEN JitReturnsNum([o.j EXCEPT !.shared = WithinFunctionCall(o.j.shared.expected_return_ty,
                                                                 o.j.shared.memory_pointer,
                                                                 o.j.shared.memory_size)],
                        "Interrupted", o.j.shared.function_index)
     ELSE JitPanics([o.j EXCEPT !.shared = SharedPoisoned], "unreachable:770")
     : o \in PollCall(j)}

\* Lines 612-774: Jit::run. `value` is the type of the value given, or "None".
run(j, value) ==
    CASE j.inner = "Executing" ->
           IF j.shared.tag = "WithinFunctionCall"
           THEN IF BadValueTy(j.shared.expected_return_ty, value)
                THEN {JitReturns(j, "Err", "BadValueTy")}
                ELSE run_poll([j EXCEPT !.shared = SharedReturn(value)])
           ELSE {JitPanics([j EXCEPT !.shared = SharedPoisoned], "unreachable:650")}
      [] j.inner = "Done" -> {JitReturns(j, "Err", "Poisoned")}
      [] j.inner = "NotStarted" ->
           IF value # "None"
           THEN {JitReturns(j, "Err", "BadValueTy")}
           ELSE run_poll([j EXCEPT !.inner = "Executing",
                                   !.shared = OutsideFunctionCall,
                                   !.function_call = [at |-> "wasm", function |-> 0]])
      [] OTHER -> {JitPanics(j, "unreachable:654")}

\* Lines 777-797: Jit::memory_size, in pages.
memory_size(j) ==
    CASE j.inner \in {"NotStarted", "Done"} ->
           JitReturnsNum(j, "Ok", j.memory.pages)
      [] j.inner = "Executing" ->
           IF j.shared.tag = "WithinFunctionCall"
           THEN JitReturnsNum(j, "Ok", IF j.shared.memory_size = 0
                                       THEN 0
                                       ELSE 1 + (j.shared.memory_size - 1) \div PageSize)
           ELSE JitPanics(j, "unreachable:786")
      [] OTHER -> JitPanics(j, "unreachable:795")

\* Lines 800-867: Jit::read_memory and Jit::write_memory of one byte at
\* `offset`. While the call is in progress the access goes through the
\* pointer and the size kept in `shared`; the access is sound only when these
\* are the address and the size of the memory.
access_memory(j, offset) ==
    CASE j.inner \in {"NotStarted", "Done"} ->
           IF offset < data_size(j.memory)
           THEN JitReturnsNum(j, "Ok", j.memory.data_ptr)
           ELSE JitReturns(j, "Err", "OutOfBoundsError")
      [] j.inner = "Executing" ->
           IF j.shared.tag = "WithinFunctionCall"
           THEN IF offset < j.shared.memory_size
                THEN JitReturnsNum(j, "Ok", j.shared.memory_pointer)
                ELSE JitReturns(j, "Err", "OutOfBoundsError")
           ELSE JitPanics(j, "unreachable:814")
      [] OTHER -> JitPanics(j, "unreachable:819")

\* Lines 870-949: Jit::grow_memory.
grow_memory(j, additional) ==
    CASE j.inner \in {"NotStarted", "Done"} ->
           IF GrowFails(j.memory, additional)
           THEN {JitReturns(j, "Err", "OutOfBoundsError")}
           ELSE {JitReturns([j EXCEPT !.memory = m], "Ok", "None")
                 : m \in Grown(j.memory, additional)}
      [] j.inner = "Executing" ->
           IF j.shared.tag = "WithinFunctionCall"
           THEN LET current_pages == IF j.shared.memory_size = 0
                                     THEN 0
                                     ELSE 1 + (j.shared.memory_size - 1) \div PageSize
                IN  IF j.memory.maximum # None /\ current_pages + additional > j.memory.maximum
                    THEN {JitReturns(j, "Err", "OutOfBoundsError")}
                    ELSE {IF o.panic
                          THEN JitPanics(o.j, o.what)
                          ELSE IF o.poll # "Pending"
                          THEN JitPanics(o.j, "unreachable:937")
                          ELSE IF o.j.shared.tag # "WithinFunctionCall"
                          THEN JitPanics(o.j, "debug_assert:939")
                          ELSE JitReturns(o.j, "Ok", "None")
                          : o \in PollCall([j EXCEPT !.shared = MemoryGrowRequired(additional)])}
           ELSE {JitPanics([j EXCEPT !.shared = SharedPoisoned], "unreachable:925")}
      [] OTHER -> {JitPanics(j, "unreachable:881")}

\* Lines 264-318: JitPrototype::from_components, as called by into_prototype:
\* the module is instantiated again, which runs its `start` function, and
\* `shared` is whatever the machine left in it.
from_components(j) ==
    IF j.memory.start_calls_import
    THEN {IF o.panic
          THEN JitPanics(o.j, o.what)
          ELSE JitPanics(o.j, "unwrap:1008")
          : o \in {HostCall(j, function) : function \in DOMAIN HostFunctions}}
    ELSE {JitReturns([j EXCEPT !.inner = "Prepare",
                               !.shared = SharedPoisoned,
                               !.function_call = [at |-> "none", function |-> 0],
                               !.memory = m],
                     "Ok", "None")
          : m \in IF j.memory.imported
                  THEN {j.memory}
                  ELSE {[j.memory EXCEPT !.pages = j.memory.initial, !.data_ptr = d]
                        : d \in {0, 1}}}

\* Lines 952-1009: Jit::into_prototype.
into_prototype(j) ==
    CASE j.inner \in {"NotStarted", "Done"} -> from_components(j)
      [] j.inner = "Executing" ->
           IF j.shared.tag = "WithinFunctionCall"
           THEN UNION {IF o.panic
                       THEN {JitPanics(o.j, o.what)}
                       ELSE IF o.poll = "ReadyErr"
                       THEN from_components(o.j)
                       ELSE {JitPanics(o.j, "unreachable:981")}
                       : o \in PollCall([j EXCEPT !.shared = AbortRequired])}
           ELSE {JitPanics([j EXCEPT !.shared = SharedPoisoned], "unreachable:972")}
      [] OTHER -> {JitPanics(j, "unreachable:955")}

\* Lines 432-482: Prepare::start. `shared` is left as from_components set it.
start(j) == JitReturns([j EXCEPT !.inner = "NotStarted"], "Ok", "None")

\* The memories a module can declare: `initial` pages, at most `maximum`
\* pages or no maximum, imported as "env":"memory" or exported.
MemoryTypes ==
    {[pages |-> initial, initial |-> initial, maximum |-> maximum, data_ptr |-> 0,
      imported |-> imported, start_calls_import |-> FALSE]
     : initial \in {0, 1}, maximum \in {None} \cup 1..EngineMaxPages,
       imported \in BOOLEAN}

\* The machine as a record.
JitSelf ==
    [inner |-> inner, shared |-> shared, function_call |-> function_call,
     memory |-> memory]

\* Lines 91-262, 264-318: a JitPrototype from JitPrototype::new, turned into a
\* Prepare: the `start` function, if any, called no import, and `shared` was
\* set to Poisoned at line 287.
JitInit ==
    /\ inner = "Prepare"
    /\ shared = SharedPoisoned
    /\ function_call = [at |-> "none", function |-> 0]
    /\ memory \in MemoryTypes
    /\ jit_panicked = FALSE
    /\ Holds0
    /\ panicked = FALSE
    /\ NoSelection
    /\ NoBindings

\* The machine after a method: a panic ends the program.
JitBecomes(o) ==
    /\ IF o.panic
       THEN /\ inner' = "Poisoned"
            /\ shared' = SharedPoisoned
            /\ function_call' = [at |-> "none", function |-> 0]
            /\ memory' = memory
            /\ jit_panicked' = TRUE
       ELSE /\ inner' = o.j.inner
            /\ shared' = o.j.shared
            /\ function_call' = o.j.function_call
            /\ memory' = o.j.memory
            /\ jit_panicked' = FALSE
    /\ UNCHANGED <<proxy_vars, panicked, selection_vars, bindings_vars>>

PrepareWriteMemory ==
    /\ ~jit_panicked
    /\ inner = "Prepare"
    /\ \E m \in Written(memory) : JitBecomes(JitReturns([JitSelf EXCEPT !.memory = m], "Ok", "None"))

PrepareStart ==
    /\ ~jit_panicked
    /\ inner = "Prepare"
    /\ JitBecomes(start(JitSelf))

Run ==
    /\ ~jit_panicked
    /\ inner \in {"NotStarted", "Executing", "Done"}
    /\ \E value \in OptionValueTypes : \E o \in run(JitSelf, value) : JitBecomes(o)

MemorySize ==
    /\ ~jit_panicked
    /\ inner \in {"NotStarted", "Executing", "Done"}
    /\ JitBecomes(memory_size(JitSelf))

WriteMemory ==
    /\ ~jit_panicked
    /\ inner \in {"NotStarted", "Executing", "Done"}
    /\ \E offset \in {0, PageSize, EngineMaxPages * PageSize} :
         LET o == access_memory(JitSelf, offset) IN
         IF o.panic \/ o.ret.tag = "Err"
         THEN JitBecomes(o)
         ELSE \E m \in Written(memory) : JitBecomes([o EXCEPT !.j.memory = m])

GrowMemory ==
    /\ ~jit_panicked
    /\ inner \in {"NotStarted", "Executing", "Done"}
    /\ \E additional \in 0..EngineMaxPages :
         \E o \in grow_memory(JitSelf, additional) : JitBecomes(o)

IntoPrototype ==
    /\ ~jit_panicked
    /\ inner \in {"NotStarted", "Executing", "Done"}
    /\ \E o \in into_prototype(JitSelf) : JitBecomes(o)

JitNext ==
    \/ PrepareWriteMemory
    \/ PrepareStart
    \/ Run
    \/ MemorySize
    \/ WriteMemory
    \/ GrowMemory
    \/ IntoPrototype

JitSpec == JitInit /\ [][JitNext]_vars

\* The panics that the code holds to be impossible: the `unreachable!()`
\* branches on Shared and JitInner.
UnreachableBranches ==
    {"unreachable:172", "unreachable:227", "unreachable:650", "unreachable:654",
     "unreachable:770", "unreachable:786", "unreachable:795", "unreachable:814",
     "unreachable:819", "unreachable:881", "unreachable:925", "unreachable:937",
     "unreachable:955", "unreachable:972", "unreachable:981"}

\* Every outcome of every public method of Jit on the machine as it is now.
JitMethodOutcomes ==
    UNION {run(JitSelf, value) : value \in OptionValueTypes}
    \cup {memory_size(JitSelf)}
    \cup {access_memory(JitSelf, offset) : offset \in {0, PageSize}}
    \cup UNION {grow_memory(JitSelf, additional) : additional \in 0..EngineMaxPages}
    \cup into_prototype(JitSelf)

\* C37: whenever a public method of Jit is entered while the call is in
\* progress, `shared` is WithinFunctionCall and the coroutine stands inside
\* the future of a host function; and no public method of Jit, whatever the
\* state of the machine, reaches an unreachable!() branch on Shared or
\* JitInner (which is where a Poisoned `shared` would be observed).
C37_HandshakeNeverReachesUnreachable ==
    /\ inner = "Executing" =>
         shared.tag = "WithinFunctionCall" /\ function_call.at = "host"
    /\ inner \in {"NotStarted", "Executing", "Done"} =>
         \A o \in JitMethodOutcomes : ~(o.panic /\ o.ret.val \in UnreachableBranches)

\* C38: `run` with a value of another type than the interrupted host function
\* expects, or with any value before the call has started, returns BadValueTy
\* and leaves the machine as it was, and from that machine `run` with the
\* expected type (no value before the start) carries the execution on; `run`
\* after the call has finished returns Poisoned.
C38_RunRejectsBadValue ==
    /\ inner = "Executing" =>
         /\ \A value \in OptionValueTypes \ {shared.expected_return_ty} :
              run(JitSelf, value) = {JitReturns(JitSelf, "Err", "BadValueTy")}
         /\ \A o \in run(JitSelf, shared.expected_return_ty) :
              ~o.panic /\ o.ret.tag \in {"Finished", "Interrupted"}
    /\ inner = "NotStarted" =>
         /\ \A value \in ValueTypes :
              run(JitSelf, value) = {JitReturns(JitSelf, "Err", "BadValueTy")}
         /\ \A o \in run(JitSelf, "None") :
              ~o.panic /\ o.ret.tag \in {"Finished", "Interrupted"}
    /\ inner = "Done" =>
         \A value \in OptionValueTypes :
           run(JitSelf, value) = {JitReturns(JitSelf, "Err", "Poisoned")}

\* A call interrupted in a host function that returns an I64: `run` with an
\* I32 is the rejected case.
C38_Witness ==
    /\ inner = "Executing"
    /\ shared.tag = "WithinFunctionCall"
    /\ shared.expected_return_ty = "I64"
    /\ run(JitSelf, "I32") = {JitReturns(JitSelf, "Err", "BadValueTy")}

\* C39: while a call is in progress, grow_memory either returns
\* OutOfBoundsError with `shared` as it was, when the pages in use plus
\* `additional` exceed the maximum of the memory type, or returns Ok with the
\* call still in progress and `shared` a WithinFunctionCall that holds the
\* address and the size of the memory grown by `additional` pages.
C39_GrowMemoryWhileExecuting ==
    inner = "Executing" =>
      \A additional \in 0..EngineMaxPages :
        \A o \in grow_memory(JitSelf, additional) :
          \/ /\ o = JitReturns(JitSelf, "Err", "OutOfBoundsError")
             /\ memory.maximum # None
             /\ memory.pages + additional > memory.maximum
          \/ /\ ~o.panic
             /\ o.ret.tag = "Ok"
             /\ o.j.inner = "Executing"
             /\ o.j.function_call = function_call
             /\ o.j.memory.pages = memory.pages + additional
             /\ o.j.shared = WithinFunctionCall(shared.expected_return_ty,
                                                o.j.memory.data_ptr, data_size(o.j.memory))

\* ---------------------------------------------------------------------------
\* light-c-bindings/rust/src/lib.rs: the functions exported to C, called from
\* several threads. Each lock operation is a step of its own; a thread is at
\* the line it executes next.
\* ---------------------------------------------------------------------------

\* Number of threads that call the bindings.
MaxThreads == 3

\* Number of chain identifiers the client hands out (it reuses them).
MaxChains == 2

\* Number of chains ever added: each gets a `Mutex<JsonRpcResponses>` of its own.
MaxStreams == 2

\* Number of responses a stream holds at a time.
MaxPending == 1

Threads == 1..MaxThreads

ChainIds == 0..(MaxChains - 1)

Streams == 1..MaxStreams

\* A thread outside the bindings.
Idle == [pc |-> "idle", chain_id |-> None, json_rpc_responses |-> None]

\* Lines 31, 62, 81, 95: the thread is about to lock the global state.
AtGlobalStateLock == {"add_chain:31", "remove_chain:62", "json_rpc_request:81", "wait:95"}

\* Lines 34-55, 64-68, 84-87, 96-100: the thread is under the global state
\* lock, in code that takes no lock.
UnderGlobalStateLock == {"add_chain:34", "remove_chain:64", "json_rpc_request:84", "wait:96"}

\* Lines 123-140: the state after global_state() has built the client: no
\* chain, no lock held, every thread outside the bindings.
BindingsInit ==
    /\ global_state = None
    /\ chain_json_rpc = [c \in ChainIds |-> None]
    /\ json_rpc_responses = [s \in Streams |-> None]
    /\ streams = [s \in Streams |-> [created |-> FALSE, pending |-> 0, ended |-> FALSE]]
    /\ threads = [t \in Threads |-> Idle]
    /\ bindings_panicked = FALSE
    /\ Holds0
    /\ panicked = FALSE
    /\ NoSelection
    /\ NoJit

\* A panic in a function exported to C ends the program: nothing of its
\* state is looked at afterwards.
BindingsPanic ==
    /\ bindings_panicked' = TRUE
    /\ global_state' = None
    /\ chain_json_rpc' = [c \in ChainIds |-> None]
    /\ json_rpc_responses' = [s \in Streams |-> None]
    /\ streams' = [s \in Streams |-> [created |-> FALSE, pending |-> 0, ended |-> FALSE]]
    /\ threads' = [t \in Threads |-> Idle]

\* The other sub-models stay as they are.
BindingsOnly == UNCHANGED <<proxy_vars, panicked, selection_vars, jit_vars>>

\* A wait that keeps the MutexGuard of the global state until it returns.
HeldUntilReturn(t) == t

\* Line 101: the MutexGuard taken at line 95 is a local of the block of lines
\* 94-101 and is dropped where the block ends: the lock has no owner after it.
DroppedAtEndOfBlock(t) == None

\* A thread enters one of the four functions with some chain identifier.
Call(t) ==
    /\ ~bindings_panicked
    /\ threads[t].pc = "idle"
    /\ \E pc \in AtGlobalStateLock : \E c \in ChainIds :
         /\ pc = "add_chain:31" =>
              /\ c = 0
              /\ \E s \in Streams : ~streams[s].created
         /\ threads' = [threads EXCEPT ![t] = [Idle EXCEPT !.pc = pc, !.chain_id = c]]
    /\ UNCHANGED <<global_state, chain_json_rpc, json_rpc_responses, streams,
                   bindings_panicked>>
    /\ BindingsOnly

\* Lines 31, 62, 81, 95: `global_state().lock().unwrap()`.
LockGlobalState(t) ==
    /\ ~bindings_panicked
    /\ threads[t].pc \in AtGlobalStateLock
    /\ global_state = None
    /\ global_state' = t
    /\ threads' = [threads EXCEPT ![t].pc =
                     CASE threads[t].pc = "add_chain:31" -> "add_chain:34"
                       [] threads[t].pc = "remove_chain:62" -> "remove_chain:64"
                       [] threads[t].pc = "json_rpc_request:81" -> "json_rpc_request:84"
                       [] OTHER -> "wait:96"]
    /\ UNCHANGED <<chain_json_rpc, json_rpc_responses, streams, bindings_panicked>>
    /\ BindingsOnly

\* Lines 34-55: the client adds the chain (or refuses the specification, and
\* `unwrap` panics at line 49), the stream gets its mutex, the guard is
\* dropped at the return.
smoldot_add_chain(t) ==
    /\ ~bindings_panicked
    /\ threads[t].pc = "add_chain:34"
    /\ \/ BindingsPanic
       \/ \E c \in ChainIds : \E s \in Streams :
            /\ chain_json_rpc[c] = None
            /\ ~streams[s].created
            /\ chain_json_rpc' = [chain_json_rpc EXCEPT ![c] = s]
            /\ streams' = [streams EXCEPT ![s].created = TRUE]
            /\ global_state' = None
            /\ threads' = [threads EXCEPT ![t] = Idle]
            /\ UNCHANGED <<json_rpc_responses, bindings_panicked>>
    /\ BindingsOnly

\* Lines 64-68: the chain leaves the map ("unknown chain" panics) and the
\* client; its stream ends.
smoldot_remove_chain(t) ==
    /\ ~bindings_panicked
    /\ threads[t].pc = "remove_chain:64"
    /\ LET s == chain_json_rpc[threads[t].chain_id] IN
       IF s = None
       THEN BindingsPanic
       ELSE /\ chain_json_rpc' = [chain_json_rpc EXCEPT ![threads[t].chain_id] = None]
            /\ streams' = [streams EXCEPT ![s].ended = TRUE]
            /\ global_state' = None
            /\ threads' = [threads EXCEPT ![t] = Idle]
            /\ UNCHANGED <<json_rpc_responses, bindings_panicked>>
    /\ BindingsOnly

\* Lines 84-87: the client takes the request, or refuses it and `unwrap`
\* panics at line 87.
smoldot_json_rpc_request(t) ==
    /\ ~bindings_panicked
    /\ threads[t].pc = "json_rpc_request:84"
    /\ \/ BindingsPanic
       \/ /\ chain_json_rpc[threads[t].chain_id] # None
          /\ global_state' = None
          /\ threads' = [threads EXCEPT ![t] = Idle]
          /\ UNCHANGED <<chain_json_rpc, json_rpc_responses, streams, bindings_panicked>>
    /\ BindingsOnly

\* Lines 96-101: the thread clones the Arc of the chain's stream ("unknown
\* chain" panics) and leaves the block.
wait_get(t) ==
    /\ ~bindings_panicked
    /\ threads[t].pc = "wait:96"
    /\ LET s == chain_json_rpc[threads[t].chain_id] IN
       IF s = None
       THEN BindingsPanic
       ELSE /\ threads' = [threads EXCEPT ![t].pc = "wait:103",
                                          ![t].json_rpc_responses = s]
            /\ global_state' = DroppedAtEndOfBlock(t)
            /\ UNCHANGED <<chain_json_rpc, json_rpc_responses, streams, bindings_panicked>>
    /\ BindingsOnly

\* Line 103: `json_rpc_responses.lock().unwrap()`.
wait_lock(t) ==
    /\ ~bindings_panicked
    /\ threads[t].pc = "wait:103"
    /\ json_rpc_responses[threads[t].json_rpc_responses] = None
    /\ json_rpc_responses' = [json_rpc_responses EXCEPT ![threads[t].json_rpc_responses] = t]
    /\ threads' = [threads EXCEPT ![t].pc = "wait:105"]
    /\ UNCHANGED <<global_state, chain_json_rpc, streams, bindings_panicked>>
    /\ BindingsOnly

\* The stream has nothing to give yet: block_on does not return.
Blocked(t) ==
    /\ threads[t].pc = "wait:105"
    /\ streams[threads[t].json_rpc_responses].pending = 0
    /\ ~streams[threads[t].json_rpc_responses].ended

\* Lines 105-112: block_on returns with a response, or with None once the
\* stream has ended; the guard of the stream is dropped at the return.
wait_next(t) ==
    /\ ~bindings_panicked
    /\ threads[t].pc = "wait:105"
    /\ ~Blocked(t)
    /\ LET s == threads[t].json_rpc_responses IN
       /\ streams' = IF streams[s].pending > 0
                     THEN [streams EXCEPT ![s].pending = @ - 1]
                     ELSE streams
       /\ json_rpc_responses' = [json_rpc_responses EXCEPT ![s] = None]
    /\ threads' = [threads EXCEPT ![t] = Idle]
    /\ UNCHANGED <<global_state, chain_json_rpc, bindings_panicked>>
    /\ BindingsOnly

\* The client, from its own tasks, puts a response or a notification in the
\* stream of a chain that has not been removed.
ClientResponds(s) ==
    /\ ~bindings_panicked
    /\ streams[s].created
    /\ ~streams[s].ended
    /\ streams[s].pending < MaxPending
    /\ streams' = [streams EXCEPT ![s].pending = @ + 1]
    /\ UNCHANGED <<global_state, chain_json_rpc, json_rpc_responses, threads,
                   bindings_panicked>>
    /\ BindingsOnly

\* The step of a thread that is under the global state lock.
UnderLockStep(t) ==
    \/ smoldot_add_chain(t)
    \/ smoldot_remove_chain(t)
    \/ smoldot_json_rpc_request(t)
    \/ wait_get(t)

BindingsNext ==
    \/ \E t \in Threads : Call(t)
    \/ \E t \in Threads : LockGlobalState(t)
    \/ \E t \in Threads : smoldot_add_chain(t)
    \/ \E t \in Threads : smoldot_remove_chain(t)
    \/ \E t \in Threads : smoldot_json_rpc_request(t)
    \/ \E t \in Threads : wait_get(t)
    \/ \E t \in Threads : wait_lock(t)
    \/ \E t \in Threads : wait_next(t)
    \/ \E s \in Streams : ClientResponds(s)

BindingsSpec == BindingsInit /\ [][BindingsNext]_vars

\* The locks a thread owns.
HoldsGlobalState(t) == global_state = t

HeldStreams(t) == {s \in Streams : json_rpc_responses[s] = t}

\* C40: a thread that has left the block of lines 94-101 of
\* smoldot_wait_next_json_rpc_response no longer owns the global state lock,
\* and while it waits in block_on it owns the lock of its chain's stream and no
\* other; no thread that owns a lock is waiting for a lock (so no cycle of
\* threads waiting for each other exists), and whoever owns the global state
\* lock can take its next step, whatever the other threads are blocked on.
C40_WaitBlocksWithoutGlobalStateLock ==
    ~bindings_panicked =>
      /\ \A t \in Threads :
           threads[t].pc \in {"wait:103", "wait:105"} => ~HoldsGlobalState(t)
      /\ \A t \in Threads :
           threads[t].pc = "wait:105" => HeldStreams(t) = {threads[t].json_rpc_responses}
      /\ \A t \in Threads :
           threads[t].pc \in AtGlobalStateLock \cup {"wait:103"} =>
             ~HoldsGlobalState(t) /\ HeldStreams(t) = {}
      /\ \A t \in Threads :
           HoldsGlobalState(t) => ENABLED UnderLockStep(t)

\* A thread is blocked in block_on, on a stream that has nothing to give,
\* while another thread is inside smoldot_json_rpc_request under the global
\* state lock and a third one is about to take that lock.
C40_Witness ==
    /\ ~bindings_panicked
    /\ \E t, u, v \in Threads :
         /\ Blocked(t)
         /\ threads[u].pc = "json_rpc_request:84"
         /\ HoldsGlobalState(u)
         /\ threads[v].pc \in {"add_chain:31", "remove_chain:62"}

====
